---- MODULE Spec2Model ----
(***************************************************************************)
(* Model of src/app/ui/DefectWebUi/src/main.cpp: the FrameBridge locator   *)
(* holder (sourceUrl property, setSourceUrl, loadFromString, useSample,    *)
(* sourceUrlChanged) and the bootstrap in main (register the holder, load  *)
(* the QML document, queued objectCreated guard, rootObjects check, exec). *)
(*                                                                         *)
(* A QString is a sequence of one-character strings.  A QUrl is the record *)
(* of the components QUrl stores after parsing, [scheme, path]; the texts  *)
(* of the model contain no "//", "?", "#", "@" or "%", so authority, query *)
(* and fragment are always absent and no percent-encoding applies.         *)
(***************************************************************************)
EXTENDS Integers, Sequences, FiniteSets, TLC

\* Longest generated text offered to loadFromString / converted to a QUrl.
MaxLen == 2

\* Characters of the generated texts.
Alphabet == {"q", "Q", ":"}

\* "qrc:/resources/images/placeholder.png" (main.cpp line 36)
PlaceholderText ==
  <<"q","r","c",":","/","r","e","s","o","u","r","c","e","s","/",
    "i","m","a","g","e","s","/",
    "p","l","a","c","e","h","o","l","d","e","r",".","p","n","g">>

\* The same locator written with an upper-case scheme.
PlaceholderUpperText ==
  <<"Q","R","C",":","/","r","e","s","o","u","r","c","e","s","/",
    "i","m","a","g","e","s","/",
    "p","l","a","c","e","h","o","l","d","e","r",".","p","n","g">>

\* "qrc:/qt/qml/DefectWebUi/main.qml" (main.cpp line 58)
MainQmlText ==
  <<"q","r","c",":","/","q","t","/","q","m","l","/",
    "D","e","f","e","c","t","W","e","b","U","i","/",
    "m","a","i","n",".","q","m","l">>

RECURSIVE SeqsUpTo(_)
SeqsUpTo(n) ==
  IF n = 0 THEN {<<>>}
  ELSE LET S == SeqsUpTo(n - 1)
       IN  S \cup {Append(s, c) : s \in {t \in S : Len(t) = n - 1}, c \in Alphabet}

\* The strings a caller can pass to loadFromString.
Texts == SeqsUpTo(MaxLen) \cup {PlaceholderText, PlaceholderUpperText}

----------------------------------------------------------------------------
(* QUrl *)

UpperLetters == {"Q", "R", "C", "D", "W", "U"}
LowerLetters == {"a","c","d","e","f","g","h","i","l","m","n","o","p","q",
                 "r","s","t","u","b","w"}

IsAlpha(c) == c \in UpperLetters \cup LowerLetters
IsSchemeChar(c) == IsAlpha(c) \/ c \in {"0","1","+","-","."}

ToLower(c) ==
  CASE c = "Q" -> "q" [] c = "R" -> "r" [] c = "C" -> "c"
    [] c = "D" -> "d" [] c = "W" -> "w" [] c = "U" -> "u"
    [] OTHER -> c

RECURSIVE LowerSeq(_)
LowerSeq(s) == IF s = <<>> THEN <<>> ELSE <<ToLower(Head(s))>> \o LowerSeq(Tail(s))

\* Index of the first ':' of the text, 0 when there is none.
FirstColon(s) ==
  IF \E i \in 1..Len(s) : s[i] = ":"
  THEN CHOOSE i \in 1..Len(s) : s[i] = ":" /\ \A j \in 1..(i - 1) : s[j] # ":"
  ELSE 0

\* QUrlPrivate::setScheme: a scheme is ALPHA *( ALPHA / DIGIT / "+" / "-" / "." ).
SchemeOk(s, len) ==
  /\ len > 0
  /\ IsAlpha(s[1])
  /\ \A i \in 2..len : IsSchemeChar(s[i])

\* The default-constructed QUrl.
EmptyUrl == [scheme |-> <<>>, path |-> <<>>]

\* QUrl(const QString &), tolerant mode: a valid scheme before the first ':'
\* is stored in lower case, the rest is the path; otherwise the whole text is
\* a relative path.
Parse(text) ==
  LET colon == FirstColon(text)
  IN  IF colon # 0 /\ SchemeOk(text, colon - 1)
      THEN [scheme |-> LowerSeq(SubSeq(text, 1, colon - 1)),
            path   |-> SubSeq(text, colon + 1, Len(text))]
      ELSE [scheme |-> <<>>, path |-> text]

IsEmpty(u) == u.scheme = <<>> /\ u.path = <<>>

\* TRUE when a ':' occurs in the path before any '/'.
ColonBeforeSlash(p) ==
  \E i \in 1..Len(p) : p[i] = ":" /\ \A j \in 1..(i - 1) : p[j] # "/"

\* QUrlPrivate::validityError for a URL without authority.
ValidityError(u) ==
  IF u.path = <<>> THEN "NoError"
  ELSE IF u.path[1] = "/"
       THEN IF Len(u.path) = 1 \/ u.path[2] # "/"
            THEN "NoError"
            ELSE "AuthorityAbsentAndPathIsDoubleSlash"
  ELSE IF u.scheme # <<>> THEN "NoError"
  ELSE IF ColonBeforeSlash(u.path) THEN "RelativeUrlPathContainsColonBeforeSlash"
  ELSE "NoError"

\* QUrl::isValid
IsValid(u) == ~IsEmpty(u) /\ ValidityError(u) = "NoError"

\* QUrl::operator==
UrlEq(a, b) == a.scheme = b.scheme /\ a.path = b.path

\* The QUrl values a caller can pass to setSourceUrl.
Urls == {Parse(t) : t \in Texts} \cup {EmptyUrl}

Placeholder == Parse(PlaceholderText)
MainQmlUrl == Parse(MainQmlText)

----------------------------------------------------------------------------
(* State *)

VARIABLES
  pc,             \* line of main about to execute, or "done"
  m_sourceUrl,    \* FrameBridge::m_sourceUrl
  signals,        \* sourceUrl() as read by a slot at each sourceUrlChanged
                  \* emitted during the latest call on the holder
  call,           \* the latest call on the holder: operation, argument,
                  \* and m_sourceUrl before the call
  everStored,     \* TRUE once a call has assigned m_sourceUrl (line 23)
  contextProperties, \* names registered on engine.rootContext()
  connection,     \* type of the objectCreated connection, "none" before it
  rootObjects,    \* engine.rootObjects()
  postedEvents,   \* queued slot invocations waiting for the event loop
  loadResult,     \* outcome of engine.load: "none", "Ready" or "Error"
  loads,          \* number of engine.load calls issued
  callbackRuns,   \* pc values at which the objectCreated lambda has run
  exitCode,       \* <<code>> once QCoreApplication::exit(code) took effect, else <<>>
  ret             \* <<value>> once main has returned value, <<>> while running

vars == <<pc, m_sourceUrl, signals, call, everStored, contextProperties, connection,
          rootObjects, postedEvents, loadResult, loads, callbackRuns,
          exitCode, ret>>

holderVars == <<m_sourceUrl, signals, call, everStored>>
engineVars == <<contextProperties, connection, rootObjects, postedEvents,
                loadResult, loads, callbackRuns, exitCode, ret>>

NoCall == [op |-> "none", arg |-> EmptyUrl, text |-> <<>>, before |-> EmptyUrl]

----------------------------------------------------------------------------
(* FrameBridge *)

\* A holder value: the member and the notifications of the call in progress.
Holder(u) == [m_sourceUrl |-> u, signals |-> <<>>]

\* FrameBridge::FrameBridge: m_sourceUrl is default-constructed.
FrameBridgeCtorPlaceholder == Placeholder
FrameBridgeCtor == EmptyUrl

\* emit sourceUrlChanged(): a directly connected slot reads sourceUrl().
EmitSourceUrlChanged(h) == [h EXCEPT !.signals = Append(@, h.m_sourceUrl)]

SetSourceUrlNoEmit(h, url) ==
  IF UrlEq(url, h.m_sourceUrl) THEN h
  ELSE [h EXCEPT !.m_sourceUrl = url]

SetSourceUrlNoSkip(h, url) ==
  EmitSourceUrlChanged([h EXCEPT !.m_sourceUrl = url])

SetSourceUrlEmitFirst(h, url) ==
  IF UrlEq(url, h.m_sourceUrl) THEN h
  ELSE [EmitSourceUrlChanged(h) EXCEPT !.m_sourceUrl = url]

\* FrameBridge::setSourceUrl
SetSourceUrl(h, url) ==
  IF UrlEq(url, h.m_sourceUrl) THEN h
  ELSE EmitSourceUrlChanged([h EXCEPT !.m_sourceUrl = url])

LoadFromStringNoCheck(h, urlString) ==
  SetSourceUrl(h, Parse(urlString))

LoadFromStringRaw(h, urlString) ==
  LET candidate == [scheme |-> <<>>, path |-> urlString]
  IN  IF ~IsValid(Parse(urlString)) THEN h ELSE SetSourceUrl(h, candidate)

\* FrameBridge::loadFromString
LoadFromString(h, urlString) ==
  LET candidate == Parse(urlString)
  IN  IF ~IsValid(candidate) THEN h ELSE SetSourceUrl(h, candidate)

UseSampleForce(h) ==
  EmitSourceUrlChanged([h EXCEPT !.m_sourceUrl = Parse(PlaceholderText)])

\* FrameBridge::useSample
UseSample(h) == SetSourceUrl(h, Parse(PlaceholderText))

\* The effect of one call on the holder of the program.
Apply(h, c) ==
  /\ m_sourceUrl' = h.m_sourceUrl
  /\ signals' = h.signals
  /\ call' = c
  /\ everStored' = (everStored \/ h.m_sourceUrl # m_sourceUrl)

CallSetSourceUrl(url) ==
  Apply(SetSourceUrl(Holder(m_sourceUrl), url),
        [op |-> "setSourceUrl", arg |-> url, text |-> <<>>, before |-> m_sourceUrl])

CallLoadFromString(urlString) ==
  Apply(LoadFromString(Holder(m_sourceUrl), urlString),
        [op |-> "loadFromString", arg |-> EmptyUrl, text |-> urlString,
         before |-> m_sourceUrl])

CallUseSample ==
  Apply(UseSample(Holder(m_sourceUrl)),
        [op |-> "useSample", arg |-> EmptyUrl, text |-> <<>>, before |-> m_sourceUrl])

----------------------------------------------------------------------------
(* main *)

\* The lambda connected to objectCreated (lines 60-63).  QCoreApplication::exit
\* does nothing when the event loop is not running.
Callback(obj, objUrl, running) ==
  /\ callbackRuns' = callbackRuns \cup {pc}
  /\ exitCode' = IF obj = "null" /\ UrlEq(MainQmlUrl, objUrl) /\ running
                 THEN <<-1>> ELSE exitCode

\* State after line 52: the application object exists, the holder has just
\* been constructed.
Init ==
  /\ pc = "L53"
  /\ m_sourceUrl = FrameBridgeCtor
  /\ signals = <<>>
  /\ call = NoCall
  /\ everStored = FALSE
  /\ contextProperties = {}
  /\ connection = "none"
  /\ rootObjects = <<>>
  /\ postedEvents = <<>>
  /\ loadResult = "none"
  /\ loads = 0
  /\ callbackRuns = {}
  /\ exitCode = <<>>
  /\ ret = <<>>

\* line 53
MainUseSample ==
  /\ pc = "L53"
  /\ CallUseSample
  /\ pc' = "L55"
  /\ UNCHANGED engineVars

MainRegisterLate ==
  /\ pc = "L55"
  /\ pc' = "L58"
  /\ UNCHANGED holderVars
  /\ UNCHANGED engineVars

\* lines 55-56
MainRegister ==
  /\ pc = "L55"
  /\ contextProperties' = contextProperties \cup {"frameBridge"}
  /\ pc' = "L58"
  /\ UNCHANGED holderVars
  /\ UNCHANGED <<connection, rootObjects, postedEvents, loadResult, loads,
                 callbackRuns, exitCode, ret>>

MainConnectDirect ==
  /\ pc = "L58"
  /\ connection' = "DirectConnection"
  /\ pc' = "L66"
  /\ UNCHANGED holderVars
  /\ UNCHANGED <<contextProperties, rootObjects, postedEvents, loadResult,
                 loads, callbackRuns, exitCode, ret>>

\* lines 58-64
MainConnect ==
  /\ pc = "L58"
  /\ connection' = "QueuedConnection"
  /\ pc' = "L66"
  /\ UNCHANGED holderVars
  /\ UNCHANGED <<contextProperties, rootObjects, postedEvents, loadResult,
                 loads, callbackRuns, exitCode, ret>>

\* line 66: QQmlApplicationEngine::load finishes the component synchronously
\* for a qrc locator: either the root object is created and appended to
\* rootObjects, or creation fails; both outcomes emit objectCreated(obj, url).
MainLoad ==
  /\ pc = "L66"
  /\ \E outcome \in {"Ready", "Error"} :
       LET obj == IF outcome = "Ready" THEN "root" ELSE "null"
       IN  /\ loadResult' = outcome
           /\ rootObjects' = IF outcome = "Ready"
                             THEN Append(rootObjects, obj) ELSE rootObjects
           /\ IF connection = "QueuedConnection"
              THEN /\ postedEvents' = Append(postedEvents,
                                             [obj |-> obj, objUrl |-> MainQmlUrl])
                   /\ UNCHANGED <<callbackRuns, exitCode>>
              ELSE IF connection = "DirectConnection"
              THEN /\ Callback(obj, MainQmlUrl, FALSE)
                   /\ UNCHANGED postedEvents
              ELSE UNCHANGED <<postedEvents, callbackRuns, exitCode>>
  /\ loads' = loads + 1
  /\ pc' = "L67"
  /\ UNCHANGED holderVars
  /\ UNCHANGED <<contextProperties, connection, ret>>

MainCheckReturnZero ==
  /\ pc = "L67"
  /\ IF rootObjects = <<>>
     THEN /\ ret' = <<0>>
          /\ pc' = "done"
     ELSE /\ pc' = "L71"
          /\ UNCHANGED ret
  /\ UNCHANGED holderVars
  /\ UNCHANGED <<contextProperties, connection, rootObjects, postedEvents,
                 loadResult, loads, callbackRuns, exitCode>>

\* lines 67-69, and entry into app.exec() at line 71
MainCheck ==
  /\ pc = "L67"
  /\ IF rootObjects = <<>>
     THEN /\ ret' = <<-1>>
          /\ pc' = "done"
     ELSE /\ pc' = "L71"
          /\ UNCHANGED ret
  /\ UNCHANGED holderVars
  /\ UNCHANGED <<contextProperties, connection, rootObjects, postedEvents,
                 loadResult, loads, callbackRuns, exitCode>>

\* The event loop of app.exec() handles events until exit has been requested.
LoopRunning == pc = "L71" /\ exitCode = <<>>

\* The loop delivers the queued objectCreated invocation.
DeliverPosted ==
  /\ LoopRunning
  /\ postedEvents # <<>>
  /\ Callback(Head(postedEvents).obj, Head(postedEvents).objUrl, TRUE)
  /\ postedEvents' = Tail(postedEvents)
  /\ UNCHANGED pc
  /\ UNCHANGED holderVars
  /\ UNCHANGED <<contextProperties, connection, rootObjects, loadResult,
                 loads, ret>>

\* UI code can reach the holder once a root object exists and the holder is
\* registered under the name frameBridge.
UiCanCall ==
  /\ LoopRunning
  /\ rootObjects # <<>>
  /\ "frameBridge" \in contextProperties

\* frameBridge.sourceUrl = url
UiSetSourceUrl(url) ==
  /\ UiCanCall
  /\ CallSetSourceUrl(url)
  /\ UNCHANGED pc
  /\ UNCHANGED engineVars

\* frameBridge.loadFromString(urlString)
UiLoadFromString(urlString) ==
  /\ UiCanCall
  /\ CallLoadFromString(urlString)
  /\ UNCHANGED pc
  /\ UNCHANGED engineVars

\* frameBridge.useSample()
UiUseSample ==
  /\ UiCanCall
  /\ CallUseSample
  /\ UNCHANGED pc
  /\ UNCHANGED engineVars

\* The UI requests termination (last window closed): exit(0).
UiQuit ==
  /\ LoopRunning
  /\ rootObjects # <<>>
  /\ exitCode' = <<0>>
  /\ UNCHANGED pc
  /\ UNCHANGED holderVars
  /\ UNCHANGED <<contextProperties, connection, rootObjects, postedEvents,
                 loadResult, loads, callbackRuns, ret>>

\* line 71: app.exec() returns the code given to exit.
ExecReturn ==
  /\ pc = "L71"
  /\ exitCode # <<>>
  /\ ret' = exitCode
  /\ pc' = "done"
  /\ UNCHANGED holderVars
  /\ UNCHANGED <<contextProperties, connection, rootObjects, postedEvents,
                 loadResult, loads, callbackRuns, exitCode>>

Next ==
  \/ MainUseSample
  \/ MainRegister
  \/ MainConnect
  \/ MainLoad
  \/ MainCheck
  \/ DeliverPosted
  \/ \E url \in Urls : UiSetSourceUrl(url)
  \/ \E urlString \in Texts : UiLoadFromString(urlString)
  \/ UiUseSample
  \/ UiQuit
  \/ ExecReturn

Spec == Init /\ [][Next]_vars

TypeOK ==
  /\ pc \in {"L53", "L55", "L58", "L66", "L67", "L71", "done"}
  /\ m_sourceUrl \in Urls
  /\ call.op \in {"none", "setSourceUrl", "loadFromString", "useSample"}
  /\ Len(signals) \in 0..1
  /\ loads \in 0..1
  /\ everStored \in BOOLEAN

----------------------------------------------------------------------------
(* Properties *)

\* The QUrl handed to setSourceUrl by the latest call (the rejected candidate
\* when loadFromString returned early).
Candidate(c) ==
  CASE c.op = "setSourceUrl" -> c.arg
    [] c.op = "loadFromString" -> Parse(c.text)
    [] c.op = "useSample" -> Placeholder
    [] OTHER -> EmptyUrl

\* C1 as stated, for the states reached by at least one operation: the locator
\* is the placeholder or a value the setter stored earlier, and an empty or
\* invalid candidate offered to setSourceUrl or to loadFromString leaves the
\* locator at its prior value.
C1_Original ==
  /\ call.op # "none" => (UrlEq(m_sourceUrl, Placeholder) \/ everStored)
  /\ (call.op \in {"setSourceUrl", "loadFromString"} /\ ~IsValid(Candidate(call)))
       => UrlEq(m_sourceUrl, call.before)

\* C1: the locator is the default-constructed empty locator until a call
\* stores one; every change of the locator stores the candidate of that call;
\* an empty or invalid text offered to loadFromString leaves the locator at its
\* prior value, while setSourceUrl stores whatever it is given, valid or not.
C1_LocatorProvenance ==
  /\ everStored \/ m_sourceUrl = EmptyUrl
  /\ ~UrlEq(m_sourceUrl, call.before) => UrlEq(m_sourceUrl, Candidate(call))
  /\ (call.op = "loadFromString" /\ ~IsValid(Parse(call.text)))
       => UrlEq(m_sourceUrl, call.before)
  /\ call.op = "setSourceUrl" => UrlEq(m_sourceUrl, call.arg)

\* An invalid text has just been rejected while the holder keeps an invalid,
\* non-empty locator that a direct set stored earlier.
C1_Witness ==
  /\ call.op = "loadFromString"
  /\ call.text # <<>>
  /\ ~IsValid(Parse(call.text))
  /\ ~IsValid(m_sourceUrl)
  /\ ~IsEmpty(m_sourceUrl)
  /\ ~UrlEq(m_sourceUrl, Parse(call.text))

\* C2 as stated: when the FrameBridge constructor has returned and no other
\* operation has been invoked, the locator equals the placeholder.
C2_Original ==
  call.op = "none" => UrlEq(m_sourceUrl, Placeholder)

\* C2: when the constructor has returned and no operation has been invoked the
\* locator is the empty locator; it equals the placeholder once main has called
\* useSample (line 53), before the holder is registered.
C2_DefaultAfterBootstrap ==
  /\ call.op = "none" => (pc = "L53" /\ IsEmpty(m_sourceUrl))
  /\ pc = "L55" => /\ UrlEq(m_sourceUrl, Placeholder)
                   /\ call.op = "useSample"
                   /\ contextProperties = {}

C2_Witness ==
  /\ pc = "L55"
  /\ UrlEq(m_sourceUrl, Placeholder)
  /\ IsEmpty(call.before)
  /\ Len(signals) = 1

\* C3: a direct set of a well-formed locator different from the current one
\* leaves the locator equal to the candidate and emits exactly one
\* sourceUrlChanged during the call.
C3_ValidDistinctSet ==
  (call.op = "setSourceUrl" /\ IsValid(call.arg) /\ ~UrlEq(call.arg, call.before))
    => (UrlEq(m_sourceUrl, call.arg) /\ Len(signals) = 1)

C3_Witness ==
  /\ call.op = "setSourceUrl"
  /\ IsValid(call.arg)
  /\ IsValid(call.before)
  /\ ~UrlEq(call.arg, call.before)
  /\ UrlEq(m_sourceUrl, call.arg)
  /\ Len(signals) = 1

\* C4: a direct set whose argument equals the current locator changes nothing
\* and emits nothing; hence a set repeated right after the same set emits
\* nothing, so the repetitions emit at most one notification in total.
C4_IdenticalSetIsNoOp ==
  /\ [](  (call.op = "setSourceUrl" /\ UrlEq(call.arg, call.before))
            => (UrlEq(m_sourceUrl, call.before) /\ signals = <<>>)  )
  /\ [][ \A url \in Urls :
           (call.op = "setSourceUrl" /\ call.arg = url /\ UiSetSourceUrl(url))
             => (signals' = <<>> /\ m_sourceUrl' = m_sourceUrl) ]_vars

C4_Witness ==
  /\ call.op = "setSourceUrl"
  /\ UrlEq(call.arg, call.before)
  /\ ~IsEmpty(call.arg)
  /\ ~UrlEq(call.arg, Placeholder)
  /\ signals = <<>>

\* C5: loadFromString with an empty or unparsable text leaves the locator
\* unchanged and emits nothing; with a text that parses to a valid locator it
\* has the effect of a direct set of the parsed locator (stored and notified
\* once when it differs from the current one, nothing otherwise).
C5_TextSetter ==
  call.op = "loadFromString" =>
    IF ~IsValid(Parse(call.text))
    THEN UrlEq(m_sourceUrl, call.before) /\ signals = <<>>
    ELSE /\ UrlEq(m_sourceUrl, Parse(call.text))
         /\ signals = IF UrlEq(Parse(call.text), call.before)
                      THEN <<>> ELSE <<Parse(call.text)>>

C5_Witness ==
  /\ call.op = "loadFromString"
  /\ call.text # <<>>
  /\ ~IsValid(Parse(call.text))
  /\ IsValid(call.before)
  /\ UrlEq(m_sourceUrl, call.before)
  /\ signals = <<>>

\* C6: useSample always ends with the locator equal to the placeholder, with
\* one notification when the prior locator differed from it and none when the
\* prior locator already was the placeholder.
C6_ResetToSample ==
  call.op = "useSample" =>
    /\ UrlEq(m_sourceUrl, Placeholder)
    /\ Len(signals) = (IF UrlEq(call.before, Placeholder) THEN 0 ELSE 1)

C6_Witness ==
  /\ call.op = "useSample"
  /\ pc = "L71"
  /\ UrlEq(call.before, Placeholder)
  /\ UrlEq(m_sourceUrl, Placeholder)
  /\ signals = <<>>

\* C7: a failed load ends the process with exit code -1: with no root object
\* after the load main returns -1 and the event loop is never entered; an
\* exit requested by the objectCreated lambda is -1 and becomes the value
\* returned; no run with a failed load returns 0, and load is issued once.
C7_LoadFailureExit ==
  /\ loadResult = "Error" => (rootObjects = <<>> /\ pc \in {"L67", "done"})
  /\ (loadResult = "Error" /\ pc = "done") => ret = <<-1>>
  /\ (callbackRuns # {} /\ loadResult = "Error") => exitCode = <<-1>>
  /\ (pc = "done" /\ exitCode # <<>>) => ret = exitCode
  /\ ret = <<0>> => loadResult = "Ready"
  /\ loads <= 1

C7_Witness ==
  /\ pc = "done"
  /\ loadResult = "Error"
  /\ ret = <<-1>>
  /\ exitCode = <<>>

\* C8: the objectCreated lambda never runs during the load call, only from the
\* event loop of app.exec(); it requests exit(-1) only for a null object
\* reported for the requested locator and does nothing for a created object;
\* when the rootObjects check fails main returns with the invocation still
\* queued.
C8_QueuedCallback ==
  /\ callbackRuns \subseteq {"L71"}
  /\ pc \in {"L53", "L55", "L58", "L66", "L67"} => (callbackRuns = {} /\ exitCode = <<>>)
  /\ (callbackRuns # {} /\ loadResult = "Ready") => exitCode \in {<<>>, <<0>>}
  /\ exitCode = <<-1>> => loadResult = "Error"
  /\ (pc = "done" /\ rootObjects = <<>>) => (callbackRuns = {} /\ postedEvents # <<>>)

C8_Witness ==
  /\ callbackRuns = {"L71"}
  /\ pc = "L71"
  /\ postedEvents = <<>>
  /\ loadResult = "Ready"
  /\ exitCode = <<>>

\* C9: the holder is set to the placeholder, then registered as frameBridge,
\* and only then is the load issued: when the load is issued, and until UI
\* code has called the holder, the holder is registered and its locator is the
\* placeholder.
C9_BootstrapOrder ==
  /\ "frameBridge" \in contextProperties => call.op # "none"
  /\ connection # "none" => "frameBridge" \in contextProperties
  /\ (pc = "L66" \/ loads > 0) => "frameBridge" \in contextProperties
  /\ pc \in {"L55", "L58", "L66", "L67"} =>
       (UrlEq(m_sourceUrl, Placeholder) /\ call.op = "useSample")
  /\ pc = "L55" => contextProperties = {}
  /\ pc \in {"L53", "L55", "L58", "L66"} => (loads = 0 /\ rootObjects = <<>>)

C9_Witness ==
  /\ pc = "L66"
  /\ loads = 0
  /\ "frameBridge" \in contextProperties
  /\ UrlEq(m_sourceUrl, Placeholder)

\* C10: a call on the holder emits exactly one sourceUrlChanged when it changed
\* the stored locator and none when it did not, and a slot reading sourceUrl()
\* inside the notification reads the new locator.
C10_NotifyIffChanged ==
  /\ Len(signals) = (IF UrlEq(m_sourceUrl, call.before) THEN 0 ELSE 1)
  /\ \A i \in 1..Len(signals) : UrlEq(signals[i], m_sourceUrl)
  /\ call.op = "none" => signals = <<>>

C10_Witness ==
  /\ call.op = "loadFromString"
  /\ ~IsEmpty(call.before)
  /\ ~UrlEq(m_sourceUrl, call.before)
  /\ signals = <<m_sourceUrl>>

====
